---------------------------- MODULE Spec2Model ----------------------------
(***************************************************************************)
(* QuantCanvas dashboard: the three React components StrategyBuilder,      *)
(* EconomicCalendar and PortfolioTracker as state machines.                *)
(*                                                                         *)
(* Numbers.  The components compute with IEEE doubles.  The model keeps    *)
(* exact integers in fixed units: strategy metrics in tenths, holding      *)
(* quantities in tenths of a unit, prices in cents, money amounts          *)
(* (quantity x price, portfolioValue) in thousandths of a dollar.  The     *)
(* result of a JavaScript division is a record that keeps the IEEE         *)
(* outcomes apart: a finite quotient, NaN, Infinity or -Infinity.          *)
(*                                                                         *)
(* Strings.  A string the code inspects (a name that is trimmed, an id     *)
(* produced by Number.toString, a forecast/actual value) is a sequence of  *)
(* one-character strings.  A string the code only stores and shows is a    *)
(* TLA+ string.                                                            *)
(***************************************************************************)
EXTENDS Integers, Sequences, FiniteSets

VARIABLES
    strategies,      \* StrategyBuilder: useState<Strategy[]>
    newStrategy,     \* StrategyBuilder: useState({name, description, assetClass})
    snap,            \* StrategyBuilder: the values captured by the closures of the last render
    acceptedCreates, \* StrategyBuilder: invocations of handleCreateStrategy that passed the name guard
    now,             \* the clock Date.now() reads, in milliseconds
    lastOp,          \* the event handled last
    selectedDate,    \* EconomicCalendar: useState<string>
    events,          \* EconomicCalendar: useState<EconomicEvent[]>
    releaseDate,     \* per event, the calendar date it belongs to (no field of EconomicEvent holds it)
    portfolioValue,  \* PortfolioTracker: useState(125430.75)
    holdings,        \* PortfolioTracker: useState<Holding[]>
    portfolioView    \* PortfolioTracker: what the last render put on screen

vars == <<strategies, newStrategy, snap, acceptedCreates, now, lastOp, selectedDate, events,
          releaseDate, portfolioValue, holdings, portfolioView>>

strategyVars == <<strategies, newStrategy, snap, acceptedCreates, now>>
calendarVars == <<selectedDate, events, releaseDate>>
portfolioVars == <<portfolioValue, holdings, portfolioView>>

(***************************************************************************)
(* Bounds and input sets                                                   *)
(***************************************************************************)
MaxCreates == 2          \* accepted creates per behaviour
ClockStart == 10         \* first clock reading (any value beyond the seed ids 1..5)
ClockEnd == 11           \* last clock reading
MaxEvents == 2           \* length of a drawn event collection
MaxHoldings == 2         \* length of a drawn holdings list

Whitespace == {" "}
Names == { <<>>, <<" ">>, <<"a">>, <<" ", "a", " ">> }
Descriptions == {"", "d"}
AssetClasses == {"equities", "crypto", "commodities", "multi"}
AssetClassInputs == {"equities", "crypto"}

(***************************************************************************)
(* String helpers                                                          *)
(***************************************************************************)
RECURSIVE TrimStart(_)
TrimStart(s) ==
    IF s # <<>> /\ Head(s) \in Whitespace THEN TrimStart(Tail(s)) ELSE s

RECURSIVE TrimEnd(_)
TrimEnd(s) ==
    IF s # <<>> /\ s[Len(s)] \in Whitespace
    THEN TrimEnd(SubSeq(s, 1, Len(s) - 1))
    ELSE s

\* String.prototype.trim
Trim(s) == TrimEnd(TrimStart(s))

Digit(d) == <<"0", "1", "2", "3", "4", "5", "6", "7", "8", "9">>[d + 1]

\* Number.prototype.toString of a non-negative integer
RECURSIVE NumberToString(_)
NumberToString(n) ==
    IF n < 10 THEN <<Digit(n)>> ELSE NumberToString(n \div 10) \o <<Digit(n % 10)>>

(***************************************************************************)
(* StrategyBuilder                                                         *)
(***************************************************************************)
InitialStrategies == <<
    [id |-> <<"1">>, name |-> <<"C", "P", "I", " ", "M", "o", "m", "e", "n", "t", "u", "m">>,
     description |-> "Buy when CPI < 3%, sell when > 5%",
     assetClass |-> "equities", sharpeRatio |-> 18, totalReturn |-> 245, maxDrawdown |-> -82, status |-> "active"],
    [id |-> <<"2">>, name |-> <<"F", "e", "d", " ", "S", "p", "e", "e", "c", "h", " ", "S", "e", "n", "t", "i", "m", "e", "n", "t">>,
     description |-> "Long when Fed dovish, short when hawkish",
     assetClass |-> "equities", sharpeRatio |-> 21, totalReturn |-> 321, maxDrawdown |-> -65, status |-> "active"],
    [id |-> <<"3">>, name |-> <<"B", "i", "t", "c", "o", "i", "n", " ", "H", "a", "l", "v", "i", "n", "g", " ", "C", "y", "c", "l", "e">>,
     description |-> "Accumulate 6 months pre-halving, distribute post",
     assetClass |-> "crypto", sharpeRatio |-> 32, totalReturn |-> 1854, maxDrawdown |-> -253, status |-> "active"],
    [id |-> <<"4">>, name |-> <<"G", "o", "l", "d", " ", "I", "n", "f", "l", "a", "t", "i", "o", "n", " ", "H", "e", "d", "g", "e">>,
     description |-> "Allocate to gold when real yields negative",
     assetClass |-> "commodities", sharpeRatio |-> 15, totalReturn |-> 187, maxDrawdown |-> -124, status |-> "backtesting"],
    [id |-> <<"5">>, name |-> <<"C", "r", "o", "s", "s", "-", "A", "s", "s", "e", "t", " ", "R", "i", "s", "k", " ", "P", "a", "r", "i", "t", "y">>,
     description |-> "Risk-weighted allocation across stocks, bonds, gold, crypto",
     assetClass |-> "multi", sharpeRatio |-> 24, totalReturn |-> 289, maxDrawdown |-> -98, status |-> "paused"] >>

InitialNewStrategy == [name |-> <<>>, description |-> "", assetClass |-> "equities"]

\* the closure values a render captures
Rendered(strats, form) == [strategies |-> strats, newStrategy |-> form]

\* the guard without the trim: only the empty string is rejected
CreateRejectedWithoutTrim(form) == Len(form.name) = 0

\* if (!newStrategy.name.trim()) return;
CreateRejected(form) == Len(Trim(form.name)) = 0

\* const newStrat: Strategy = {...}
newStrat(form, t) ==
    [id |-> NumberToString(t), name |-> form.name, description |-> form.description,
     assetClass |-> form.assetClass, sharpeRatio |-> 0, totalReturn |-> 0,
     maxDrawdown |-> 0, status |-> "backtesting"]

\* the new strategy appended instead of prepended
StrategiesAfterCreateAppended(s, t) == s.strategies \o <<newStrat(s.newStrategy, t)>>

\* the new strategy put in the place of the head of the list
StrategiesAfterCreateReplacingHead(s, t) ==
    <<newStrat(s.newStrategy, t)>> \o Tail(s.strategies)

\* setStrategies([newStrat, ...strategies])
StrategiesAfterCreate(s, t) == <<newStrat(s.newStrategy, t)>> \o s.strategies

\* metrics a backtest can have written into a strategy, in tenths: the tier
\* boundaries, their neighbours, and the zero of a new strategy
SharpeInputs == {-5, 0, 9, 10, 11, 19, 20, 21}
DrawdownInputs == {-253, -201, -200, -199, -101, -100, -99, 0}

DrawnStrategy(sharpe, drawdown) ==
    [id |-> <<"6">>, name |-> <<"a">>, description |-> "d", assetClass |-> "equities",
     sharpeRatio |-> sharpe, totalReturn |-> 0, maxDrawdown |-> drawdown, status |-> "active"]

\* the strategy lists holding one strategy with drawn metrics
DrawnStrategyLists ==
    { <<DrawnStrategy(s, d)>> : s \in SharpeInputs, d \in DrawdownInputs }

\* a Sharpe colour whose green tier starts above 2.0
SharpeColorAboveTwo(sharpeRatio) ==
    IF sharpeRatio > 20 THEN "text-green-600"
    ELSE IF sharpeRatio >= 10 THEN "text-yellow-600"
    ELSE "text-red-600"

\* strategy.sharpeRatio >= 2 ? 'text-green-600' : strategy.sharpeRatio >= 1 ? 'text-yellow-600' : 'text-red-600'
SharpeColor(sharpeRatio) ==
    IF sharpeRatio >= 20 THEN "text-green-600"
    ELSE IF sharpeRatio >= 10 THEN "text-yellow-600"
    ELSE "text-red-600"

\* a drawdown colour whose yellow tier starts above -20
DrawdownColorAboveMinusTwenty(maxDrawdown) ==
    IF maxDrawdown >= -100 THEN "text-green-600"
    ELSE IF maxDrawdown > -200 THEN "text-yellow-600"
    ELSE "text-red-600"

\* strategy.maxDrawdown >= -10 ? 'text-green-600' : strategy.maxDrawdown >= -20 ? 'text-yellow-600' : 'text-red-600'
DrawdownColor(maxDrawdown) ==
    IF maxDrawdown >= -100 THEN "text-green-600"
    ELSE IF maxDrawdown >= -200 THEN "text-yellow-600"
    ELSE "text-red-600"

\* the metric colours of one card of strategies.map
StrategyCard(strategy) ==
    [id |-> strategy.id,
     sharpeColor |-> SharpeColor(strategy.sharpeRatio),
     drawdownColor |-> DrawdownColor(strategy.maxDrawdown)]

\* strategies.map((strategy) => <div key={strategy.id} ...>): the cards on screen
strategyCards == [i \in 1..Len(snap.strategies) |-> StrategyCard(snap.strategies[i])]

\* the click handler of the Create button, followed by the re-render React
\* performs before it delivers the next event
handleCreateStrategy ==
    /\ IF CreateRejected(snap.newStrategy)
       THEN UNCHANGED <<strategies, newStrategy, acceptedCreates>>
       ELSE /\ Len(strategies) < Len(InitialStrategies) + MaxCreates
            /\ strategies' = StrategiesAfterCreate(snap, now)
            /\ newStrategy' = [name |-> <<>>, description |-> "", assetClass |-> "equities"]
            /\ acceptedCreates' = acceptedCreates + 1
    /\ snap' = Rendered(strategies', newStrategy')
    /\ lastOp' = "handleCreateStrategy"
    /\ UNCHANGED <<now, calendarVars, portfolioVars>>

\* onChange of the name input
SetName ==
    \E v \in Names :
        /\ newStrategy' = [snap.newStrategy EXCEPT !.name = v]
        /\ snap' = Rendered(strategies, newStrategy')
        /\ lastOp' = "setName"
        /\ UNCHANGED <<strategies, acceptedCreates, now, calendarVars, portfolioVars>>

\* onChange of the description textarea
SetDescription ==
    \E v \in Descriptions :
        /\ newStrategy' = [snap.newStrategy EXCEPT !.description = v]
        /\ snap' = Rendered(strategies, newStrategy')
        /\ lastOp' = "setDescription"
        /\ UNCHANGED <<strategies, acceptedCreates, now, calendarVars, portfolioVars>>

\* onChange of the asset class select
SetAssetClass ==
    \E v \in AssetClassInputs :
        /\ newStrategy' = [snap.newStrategy EXCEPT !.assetClass = v]
        /\ snap' = Rendered(strategies, newStrategy')
        /\ lastOp' = "setAssetClass"
        /\ UNCHANGED <<strategies, acceptedCreates, now, calendarVars, portfolioVars>>

\* a millisecond passes
Tick ==
    /\ now < ClockEnd
    /\ now' = now + 1
    /\ lastOp' = "tick"
    /\ UNCHANGED <<strategies, newStrategy, snap, acceptedCreates, calendarVars, portfolioVars>>

\* handleCreateStrategy run from the closures of the last render, the
\* re-render still pending: setStrategies and setNewStrategy replace the
\* pending state with values computed from the captured snapshot
handleCreateStrategyBeforeRender ==
    /\ IF CreateRejected(snap.newStrategy)
       THEN UNCHANGED <<strategies, newStrategy, acceptedCreates>>
       ELSE /\ acceptedCreates < MaxCreates
            /\ strategies' = StrategiesAfterCreate(snap, now)
            /\ newStrategy' = [name |-> <<>>, description |-> "", assetClass |-> "equities"]
            /\ acceptedCreates' = acceptedCreates + 1
    /\ lastOp' = "handleCreateStrategy"
    /\ UNCHANGED <<snap, now, calendarVars, portfolioVars>>

\* onChange of the name input, the re-render still pending
SetNameBeforeRender ==
    \E v \in Names :
        /\ newStrategy' = [snap.newStrategy EXCEPT !.name = v]
        /\ lastOp' = "setName"
        /\ UNCHANGED <<strategies, snap, acceptedCreates, now, calendarVars, portfolioVars>>

\* React flushes the pending updates and renders: the closures capture the
\* current state
RenderStrategyBuilder ==
    /\ snap # Rendered(strategies, newStrategy)
    /\ snap' = Rendered(strategies, newStrategy)
    /\ lastOp' = "render"
    /\ UNCHANGED <<strategies, newStrategy, acceptedCreates, now, calendarVars, portfolioVars>>

(***************************************************************************)
(* EconomicCalendar                                                        *)
(***************************************************************************)
InitialSelectedDate == "2026-02-13"

\* values the date input can deliver: a day, another day, the cleared input
DateInputs == {"2026-02-13", "2026-02-14", ""}

\* dates an event can belong to
ReleaseDates == {"2026-02-13", "2026-02-14"}

NA == <<"N", "/", "A">>

SeedEvents == <<
    [id |-> <<"1">>, time |-> <<"0", "8", ":", "3", "0", " ", "E", "T">>,
     name |-> "CPI Inflation", country |-> "US", importance |-> 5,
     forecast |-> <<"3", ".", "2", "%">>, actual |-> <<"3", ".", "1", "%">>, surprise |-> "positive"],
    [id |-> <<"2">>, time |-> <<"0", "8", ":", "3", "0", " ", "E", "T">>,
     name |-> "Retail Sales", country |-> "US", importance |-> 4,
     forecast |-> <<"+", "0", ".", "4", "%">>, actual |-> <<"+", "0", ".", "6", "%">>, surprise |-> "positive"],
    [id |-> <<"3">>, time |-> <<"1", "0", ":", "0", "0", " ", "E", "T">>,
     name |-> "Business Inventories", country |-> "US", importance |-> 2,
     forecast |-> <<"+", "0", ".", "2", "%">>, actual |-> <<"+", "0", ".", "1", "%">>, surprise |-> "negative"],
    [id |-> <<"4">>, time |-> <<"1", "1", ":", "3", "0", " ", "E", "T">>,
     name |-> "4-Week Bill Auction", country |-> "US", importance |-> 3,
     forecast |-> <<"4", ".", "8", "5", "%">>, actual |-> <<"4", ".", "8", "2", "%">>, surprise |-> "positive"],
    [id |-> <<"5">>, time |-> <<"1", "3", ":", "0", "0", " ", "E", "T">>,
     name |-> "3-Yr Note Auction", country |-> "US", importance |-> 3,
     forecast |-> <<"4", ".", "2", "5", "%">>, actual |-> <<"4", ".", "2", "8", "%">>, surprise |-> "negative"],
    [id |-> <<"6">>, time |-> <<"1", "4", ":", "0", "0", " ", "E", "T">>,
     name |-> "Treasury Buyback Results", country |-> "US", importance |-> 2,
     forecast |-> NA, actual |-> <<"C", "o", "m", "p", "l", "e", "t", "e", "d">>, surprise |-> "neutral"],
    [id |-> <<"7">>, time |-> <<"1", "5", ":", "1", "5", " ", "E", "T">>,
     name |-> "Raphael Bostic Speaks", country |-> "US", importance |-> 4,
     forecast |-> NA, actual |-> <<"S", "c", "h", "e", "d", "u", "l", "e", "d">>, surprise |-> "neutral"] >>

\* a seed list whose CPI Inflation entry was stored without a direction
InitialEventsNeutralCpi == [SeedEvents EXCEPT ![1].surprise = "neutral"]

\* a seed list whose Treasury Buyback entry was stored with a direction
InitialEventsBuybackPositive == [SeedEvents EXCEPT ![6].surprise = "positive"]

\* a seed list whose first two entries, both at 08:30 ET, were written in the other order
InitialEventsRetailSalesFirst ==
    <<SeedEvents[2], SeedEvents[1]>> \o SubSeq(SeedEvents, 3, Len(SeedEvents))

\* useState<EconomicEvent[]>([...])
InitialEvents == SeedEvents

\* an event of a drawn collection: position i, importance imp
DrawnEvent(i, imp) ==
    [id |-> NumberToString(i), time |-> <<"0", "8", ":", "3", "0", " ", "E", "T">>,
     name |-> "Drawn", country |-> "US",
     importance |-> imp, forecast |-> NA, actual |-> NA, surprise |-> "neutral"]

\* the event collections of length at most MaxEvents, importance in 1..5
DrawnEventCollections ==
    UNION { { [i \in 1..n |-> DrawnEvent(i, imp[i])] : imp \in [1..n -> 1..5] } : n \in 0..MaxEvents }

IsHighImpact(event) == event.importance >= 4
\* a medium tier that starts at 3 and has no upper end
IsMediumImpactFromThree(event) == event.importance >= 3

IsMediumImpact(event) == event.importance = 3
IsLowImpact(event) == event.importance <= 2

\* events.filter(event => event.importance >= 4), and the two beside it
highImpactEvents == SelectSeq(events, IsHighImpact)
mediumImpactEvents == SelectSeq(events, IsMediumImpact)
lowImpactEvents == SelectSeq(events, IsLowImpact)

\* events.map((event) => <div key={event.id} ...>): the list on screen
DisplayedEvents(evs, date) == evs

displayedEvents == DisplayedEvents(events, selectedDate)

\* onChange of the date input
setSelectedDate ==
    \E d \in DateInputs :
        /\ selectedDate' = d
        /\ lastOp' = "setSelectedDate"
        /\ UNCHANGED <<events, releaseDate, strategyVars, portfolioVars>>

(***************************************************************************)
(* PortfolioTracker                                                        *)
(***************************************************************************)
InitialPortfolioValue == 125430750

InitialHoldings == <<
    [id |-> <<"1">>, symbol |-> "AAPL", name |-> "Apple Inc.", type |-> "stock",
     quantity |-> 500, currentPrice |-> 17525, averageCost |-> 16550, change |-> 23],
    [id |-> <<"2">>, symbol |-> "BTC", name |-> "Bitcoin", type |-> "crypto",
     quantity |-> 5, currentPrice |-> 6250075, averageCost |-> 5800000, change |-> 58],
    [id |-> <<"3">>, symbol |-> "ETH", name |-> "Ethereum", type |-> "crypto",
     quantity |-> 32, currentPrice |-> 325050, averageCost |-> 310000, change |-> 19],
    [id |-> <<"4">>, symbol |-> "GLD", name |-> "SPDR Gold Shares", type |-> "commodity",
     quantity |-> 250, currentPrice |-> 18575, averageCost |-> 18025, change |-> -5],
    [id |-> <<"5">>, symbol |-> "NVDA", name |-> "NVIDIA Corp", type |-> "stock",
     quantity |-> 150, currentPrice |-> 95025, averageCost |-> 85050, change |-> 82] >>

\* drawn inputs: quantities, prices and costs (zero among them), total values
Quantities == {0, 2}
Prices == {0, 1, 3}
PortfolioValueInputs == {0, 4, 6}

DrawnHolding(i, q, p, c) ==
    [id |-> NumberToString(i), symbol |-> "SYM", name |-> "Drawn", type |-> "stock",
     quantity |-> q, currentPrice |-> p, averageCost |-> c, change |-> 0]

\* the holdings lists of length at most MaxHoldings over the drawn values
DrawnHoldingLists ==
    UNION { { [i \in 1..n |-> DrawnHolding(i, f[i][1], f[i][2], f[i][3])] :
                f \in [1..n -> Quantities \X Prices \X Prices] } : n \in 0..MaxHoldings }

\* the values of a double a division can produce
NaN == [kind |-> "NaN", num |-> 0, den |-> 0]
PosInfinity == [kind |-> "Infinity", num |-> 0, den |-> 0]
NegInfinity == [kind |-> "-Infinity", num |-> 0, den |-> 0]
Finite(n, d) == [kind |-> "finite", num |-> n, den |-> d]

\* a / b on doubles: x/0 is Infinity or -Infinity by the sign of x, 0/0 is NaN
JsDivide(a, b) ==
    IF b # 0 THEN Finite(a, b)
    ELSE IF a > 0 THEN PosInfinity
    ELSE IF a < 0 THEN NegInfinity
    ELSE NaN

\* v * 100 on doubles: Infinity, -Infinity and NaN stay what they are
JsTimes100(v) == IF v.kind = "finite" THEN Finite(100 * v.num, v.den) ELSE v

\* a callback that drops the accumulator
GainLossStepWithoutSum(sum, holding) ==
    (holding.quantity * holding.currentPrice) - (holding.quantity * holding.averageCost)

\* the callback of holdings.reduce
GainLossStep(sum, holding) ==
    LET currentValue == holding.quantity * holding.currentPrice
        costBasis == holding.quantity * holding.averageCost
    IN  sum + (currentValue - costBasis)

\* Array.prototype.reduce with GainLossStep, left to right
RECURSIVE ReduceGainLoss(_, _)
ReduceGainLoss(sum, hs) ==
    IF hs = <<>> THEN sum ELSE ReduceGainLoss(GainLossStep(sum, Head(hs)), Tail(hs))

\* const totalGainLoss = holdings.reduce(..., 0)
totalGainLoss(hs) == ReduceGainLoss(0, hs)

\* const totalGainLossPercent = (totalGainLoss / (portfolioValue - totalGainLoss)) * 100
totalGainLossPercent(value, hs) ==
    JsTimes100(JsDivide(totalGainLoss(hs), value - totalGainLoss(hs)))

\* the body of holdings.map: what one row shows
HoldingRow(holding) ==
    LET currentValue == holding.quantity * holding.currentPrice
        gainLoss == currentValue - (holding.quantity * holding.averageCost)
        gainLossPercent ==
            JsTimes100(JsDivide(gainLoss, holding.quantity * holding.averageCost))
    IN  [id |-> holding.id, currentValue |-> currentValue, gainLoss |-> gainLoss,
         gainLossPercent |-> gainLossPercent]

NotRendered ==
    [mounted |-> FALSE, portfolioValue |-> 0, totalGainLoss |-> 0,
     totalGainLossPercent |-> NaN, rows |-> <<>>]

\* the function body of PortfolioTracker: the derived values and the rows
RenderPortfolioTracker(value, hs) ==
    [mounted |-> TRUE, portfolioValue |-> value, totalGainLoss |-> totalGainLoss(hs),
     totalGainLossPercent |-> totalGainLossPercent(value, hs),
     rows |-> [i \in 1..Len(hs) |-> HoldingRow(hs[i])]]

\* React renders the component
RenderPortfolio ==
    /\ portfolioView' = RenderPortfolioTracker(portfolioValue, holdings)
    /\ lastOp' = "renderPortfolio"
    /\ UNCHANGED <<portfolioValue, holdings, strategyVars, calendarVars>>

(***************************************************************************)
(* Specifications                                                          *)
(***************************************************************************)
StrategyInit ==
    /\ strategies = InitialStrategies
    /\ newStrategy = InitialNewStrategy
    /\ snap = Rendered(strategies, newStrategy)
    /\ acceptedCreates = 0
    /\ now = ClockStart

CalendarInit ==
    /\ selectedDate = InitialSelectedDate
    /\ events = InitialEvents
    /\ releaseDate = [i \in 1..Len(InitialEvents) |-> InitialSelectedDate]

PortfolioInit ==
    /\ portfolioValue = InitialPortfolioValue
    /\ holdings = InitialHoldings
    /\ portfolioView = NotRendered

\* the dashboard as constructed
Init ==
    /\ lastOp = "none"
    /\ StrategyInit
    /\ CalendarInit
    /\ PortfolioInit

\* StrategyBuilder: the form, the Create button and the clock
Next ==
    \/ handleCreateStrategy
    \/ SetName
    \/ SetDescription
    \/ SetAssetClass
    \/ Tick

Spec == Init /\ [][Next]_vars

\* StrategyBuilder with the re-render as a step of its own: a handler can
\* run again before React has rendered the state the previous one set
NextDeferredRender ==
    \/ handleCreateStrategyBeforeRender
    \/ SetNameBeforeRender
    \/ RenderStrategyBuilder
    \/ Tick

SpecDeferredRender == Init /\ [][NextDeferredRender]_vars

\* StrategyBuilder showing the seed strategies or a strategy with drawn
\* metrics, the form being edited
InitStrategyMetrics ==
    /\ lastOp = "none"
    /\ CalendarInit
    /\ PortfolioInit
    /\ strategies \in {InitialStrategies} \cup DrawnStrategyLists
    /\ newStrategy = InitialNewStrategy
    /\ snap = Rendered(strategies, newStrategy)
    /\ acceptedCreates = 0
    /\ now = ClockStart

NextStrategyMetrics ==
    \/ SetName
    \/ SetDescription
    \/ SetAssetClass

SpecStrategyMetrics == InitStrategyMetrics /\ [][NextStrategyMetrics]_vars

\* EconomicCalendar with its seed events, each belonging to some date
InitCalendar ==
    /\ lastOp = "none"
    /\ StrategyInit
    /\ PortfolioInit
    /\ selectedDate = InitialSelectedDate
    /\ events = InitialEvents
    /\ releaseDate \in [1..Len(InitialEvents) -> ReleaseDates]

NextCalendar == setSelectedDate

SpecCalendar == InitCalendar /\ [][NextCalendar]_vars

\* EconomicCalendar over any event collection
InitCalendarInputs ==
    /\ lastOp = "none"
    /\ StrategyInit
    /\ PortfolioInit
    /\ selectedDate = InitialSelectedDate
    /\ events \in {InitialEvents} \cup DrawnEventCollections
    /\ releaseDate \in [1..Len(events) -> ReleaseDates]

SpecCalendarInputs == InitCalendarInputs /\ [][NextCalendar]_vars

\* PortfolioTracker over the seed holdings and any drawn holdings list and total
InitPortfolio ==
    /\ lastOp = "none"
    /\ StrategyInit
    /\ CalendarInit
    /\ holdings \in {InitialHoldings} \cup DrawnHoldingLists
    /\ portfolioValue \in {InitialPortfolioValue} \cup PortfolioValueInputs
    /\ portfolioView = NotRendered

NextPortfolio == RenderPortfolio

SpecPortfolio == InitPortfolio /\ [][NextPortfolio]_vars

(***************************************************************************)
(* Helpers of the properties                                               *)
(***************************************************************************)
FractionDigits == 2      \* decimals kept when a value string is read as a number

Range(f) == { f[i] : i \in DOMAIN f }

RECURSIVE SumSeq(_)
SumSeq(q) == IF q = <<>> THEN 0 ELSE SumSeq(SubSeq(q, 1, Len(q) - 1)) + q[Len(q)]

RECURSIVE Pow10(_)
Pow10(n) == IF n = 0 THEN 1 ELSE 10 * Pow10(n - 1)

\* a string of whitespace only, the empty string included
IsBlank(s) == \A i \in 1..Len(s) : s[i] \in Whitespace

\* the events released on date d, in their order in evs
RECURSIVE FilterEventsByDate(_, _, _)
FilterEventsByDate(evs, dates, d) ==
    IF evs = <<>> THEN <<>>
    ELSE IF Head(dates) = d
         THEN <<Head(evs)>> \o FilterEventsByDate(Tail(evs), Tail(dates), d)
         ELSE FilterEventsByDate(Tail(evs), Tail(dates), d)

\* reading a forecast/actual string as a signed decimal, a trailing "%" stripped
DigitChars == { Digit(d) : d \in 0..9 }
DigitValue(c) == CHOOSE d \in 0..9 : Digit(d) = c
StripPercent(s) == IF s # <<>> /\ s[Len(s)] = "%" THEN SubSeq(s, 1, Len(s) - 1) ELSE s
StripSign(s) == IF s # <<>> /\ Head(s) \in {"+", "-"} THEN Tail(s) ELSE s
Magnitude(s) == StripSign(StripPercent(s))
IsDigits(s) == s # <<>> /\ \A i \in 1..Len(s) : s[i] \in DigitChars
DotPositions(s) == { i \in 1..Len(s) : s[i] = "." }

IsNumeric(s) ==
    LET b == Magnitude(s) IN
    \/ IsDigits(b)
    \/ \E k \in DotPositions(b) :
          /\ IsDigits(SubSeq(b, 1, k - 1))
          /\ IsDigits(SubSeq(b, k + 1, Len(b)))
          /\ Len(b) - k <= FractionDigits

RECURSIVE DigitsValue(_)
DigitsValue(s) ==
    IF s = <<>> THEN 0
    ELSE 10 * DigitsValue(SubSeq(s, 1, Len(s) - 1)) + DigitValue(s[Len(s)])

\* the value of a numeric string, in units of 10^-FractionDigits
NumericValue(s) ==
    LET b == Magnitude(s)
        sign == IF StripPercent(s) # <<>> /\ Head(StripPercent(s)) = "-" THEN -1 ELSE 1
        dots == DotPositions(b)
        k == IF dots = {} THEN Len(b) + 1 ELSE CHOOSE i \in dots : TRUE
        whole == DigitsValue(SubSeq(b, 1, k - 1))
        frac == SubSeq(b, k + 1, Len(b))
    IN  sign * (whole * Pow10(FractionDigits)
                + DigitsValue(frac) * Pow10(FractionDigits - Len(frac)))

BothNumeric(event) == IsNumeric(event.actual) /\ IsNumeric(event.forecast)

(***************************************************************************)
(* Properties                                                              *)
(***************************************************************************)

\* C1: once a date has been selected, the list on screen is exactly the
\* events released on the selected date, in their original order (empty
\* when no event was released on it).
C1_DisplayedIsFilteredByDate ==
    lastOp = "setSelectedDate" =>
        displayedEvents = FilterEventsByDate(events, releaseDate, selectedDate)

\* C2: a rendered row of a holding whose cost basis quantity * averageCost
\* is 0 shows the sentinel as its gain/loss percent (NaN, the one double the
\* valuation contract names as a sentinel), never another outcome of the
\* division by zero.
C2_ZeroCostBasisGivesSentinel ==
    portfolioView.mounted =>
        \A i \in 1..Len(holdings) :
            holdings[i].quantity * holdings[i].averageCost = 0
                => portfolioView.rows[i].gainLossPercent = NaN

\* C3: the rendered total gain/loss percent is
\* totalGainLoss / (totalValue - totalGainLoss) * 100 when the divisor is
\* not 0 and the sentinel when it is 0.
C3_TotalPercentGuarded ==
    portfolioView.mounted =>
        LET total == SumSeq([i \in 1..Len(holdings) |->
                        holdings[i].quantity * holdings[i].currentPrice
                        - holdings[i].quantity * holdings[i].averageCost])
            base == portfolioValue - total
        IN  /\ base # 0 => portfolioView.totalGainLossPercent = Finite(100 * total, base)
            /\ base = 0 => portfolioView.totalGainLossPercent = NaN

\* C4: a create whose entered name is blank (empty once trimmed) changes
\* neither the strategy list nor the form, and the handler returns.
C4_BlankNameCreateIsNoOp ==
    [][ (lastOp' = "handleCreateStrategy" /\ IsBlank(newStrategy.name))
            => (strategies' = strategies /\ newStrategy' = newStrategy) ]_vars

C4_Witness ==
    /\ lastOp = "handleCreateStrategy"
    /\ newStrategy.name = <<" ">>
    /\ newStrategy.description = "d"
    /\ Len(strategies) = Len(InitialStrategies) + 1

\* C5: a create whose entered name is not blank gives the list made of one
\* new strategy followed by the previous list, the new strategy carrying
\* the entered name, description and asset class, the three metrics at 0
\* and the status backtesting.
C5_CreatePrependsZeroedStrategy ==
    [][ (lastOp' = "handleCreateStrategy" /\ ~IsBlank(newStrategy.name))
            => /\ Len(strategies') = Len(strategies) + 1
               /\ strategies' =
                    << [id |-> strategies'[1].id,
                        name |-> newStrategy.name,
                        description |-> newStrategy.description,
                        assetClass |-> newStrategy.assetClass,
                        sharpeRatio |-> 0, totalReturn |-> 0, maxDrawdown |-> 0,
                        status |-> "backtesting"] >> \o strategies ]_vars

C5_Witness ==
    /\ lastOp = "handleCreateStrategy"
    /\ Len(strategies) = Len(InitialStrategies) + 2
    /\ strategies[1].name = <<" ", "a", " ">>
    /\ strategies[1].description = "d"
    /\ strategies[1].assetClass = "crypto"
    /\ strategies[1].status = "backtesting"

\* C6: the ids of the strategies in the list are pairwise distinct.
C6_IdsPairwiseDistinct ==
    \A i, j \in 1..Len(strategies) :
        i # j => strategies[i].id # strategies[j].id

\* C7: every event is in exactly one of the high, medium and low impact
\* lists: the high list when its importance is 4 or 5, the medium list when
\* it is 3, the low list when it is 1 or 2.
C7_TiersPartitionEvents ==
    /\ Len(highImpactEvents) + Len(mediumImpactEvents) + Len(lowImpactEvents) = Len(events)
    /\ \A i \in 1..Len(events) :
        LET e == events[i] IN
        /\ e \in Range(highImpactEvents) <=> e.importance \in {4, 5}
        /\ e \in Range(mediumImpactEvents) <=> e.importance = 3
        /\ e \in Range(lowImpactEvents) <=> e.importance \in {1, 2}

C7_Witness ==
    /\ lastOp = "setSelectedDate"
    /\ Len(events) = 2
    /\ events[1].importance = 1
    /\ events[2].importance = 4
    /\ Len(lowImpactEvents) = 1
    /\ Len(highImpactEvents) = 1
    /\ Len(mediumImpactEvents) = 0

C9_NonNumericIsNeutral ==
    \A i \in 1..Len(events) :
        LET e == events[i] IN
        (~IsNumeric(e.actual) \/ ~IsNumeric(e.forecast)) => e.surprise = "neutral"

C9_Witness ==
    /\ lastOp = "setSelectedDate"
    /\ \E i \in 1..Len(events) :
        /\ ~IsNumeric(events[i].forecast)
        /\ ~IsNumeric(events[i].actual)
        /\ events[i].surprise = "neutral"
    /\ \E i \in 1..Len(events) : BothNumeric(events[i])

\* C10: the rendered total gain/loss is the sum over the holdings of
\* quantity * currentPrice - quantity * averageCost, which is the sum of
\* the gain/loss of the rendered rows, and 0 for the empty list.
C10_TotalGainLossIsSum ==
    portfolioView.mounted =>
        /\ portfolioView.totalGainLoss =
             SumSeq([i \in 1..Len(holdings) |->
                 holdings[i].quantity * holdings[i].currentPrice
                 - holdings[i].quantity * holdings[i].averageCost])
        /\ portfolioView.totalGainLoss =
             SumSeq([i \in 1..Len(holdings) |-> portfolioView.rows[i].gainLoss])
        /\ holdings = <<>> => portfolioView.totalGainLoss = 0

C10_Witness ==
    /\ portfolioView.mounted
    /\ Len(holdings) = 2
    /\ portfolioView.rows[1].gainLoss > 0
    /\ portfolioView.rows[2].gainLoss < 0
    /\ portfolioView.totalGainLoss = portfolioView.rows[1].gainLoss + portfolioView.rows[2].gainLoss

\* C11: the total value a render shows, and uses as the base of the total
\* gain/loss percent, is the sum of quantity * currentPrice over the
\* holdings.
C11_TotalValueIsSumOfHoldings ==
    portfolioView.mounted =>
        portfolioView.portfolioValue =
            SumSeq([i \in 1..Len(holdings) |->
                holdings[i].quantity * holdings[i].currentPrice])

\* the minutes since midnight of a time written "HH:MM ET"
ScheduledMinutes(time) ==
    60 * DigitsValue(SubSeq(time, 1, 2)) + DigitsValue(SubSeq(time, 4, 5))

\* C12: the events on screen are in ascending order of scheduled time, and
\* two events with the same scheduled time are in descending order of
\* importance.
C12_DisplayedInTimeThenImportanceOrder ==
    \A i, j \in 1..Len(displayedEvents) :
        i < j =>
            LET a == displayedEvents[i]
                b == displayedEvents[j]
            IN  /\ ScheduledMinutes(a.time) <= ScheduledMinutes(b.time)
                /\ ScheduledMinutes(a.time) = ScheduledMinutes(b.time)
                        => a.importance >= b.importance

C12_Witness ==
    /\ lastOp = "setSelectedDate"
    /\ Len(displayedEvents) = 7
    /\ \E i, j \in 1..Len(displayedEvents) :
        /\ i < j
        /\ ScheduledMinutes(displayedEvents[i].time) = ScheduledMinutes(displayedEvents[j].time)
        /\ displayedEvents[i].importance > displayedEvents[j].importance
    /\ \E i, j \in 1..Len(displayedEvents) :
        /\ i < j
        /\ ScheduledMinutes(displayedEvents[i].time) < ScheduledMinutes(displayedEvents[j].time)
        /\ displayedEvents[i].importance < displayedEvents[j].importance

\* the tier a colour class stands for
TierOfColor(color) ==
    CASE color = "text-green-600" -> "strong"
      [] color = "text-yellow-600" -> "moderate"
      [] color = "text-red-600" -> "weak"

\* C13: every card gets exactly one Sharpe tier: strong when the Sharpe
\* ratio is >= 2.0, moderate when it is in [1.0, 2.0), weak when it is
\* < 1.0 (so 0 is weak).
C13_SharpeTiers ==
    \A i \in 1..Len(strategies) :
        LET v == strategies[i].sharpeRatio
            tier == TierOfColor(strategyCards[i].sharpeColor)
        IN  /\ Len(strategyCards) = Len(strategies)
            /\ tier = "strong" <=> v >= 20
            /\ tier = "moderate" <=> (10 <= v /\ v < 20)
            /\ tier = "weak" <=> v < 10

C13_Witness ==
    /\ lastOp = "setName"
    /\ Len(strategies) = 1
    /\ strategies[1].sharpeRatio = 20
    /\ TierOfColor(strategyCards[1].sharpeColor) = "strong"

\* C14: every card gets exactly one drawdown tier: strong when the max
\* drawdown is >= -10, moderate when it is in [-20, -10), weak when it is
\* < -20 (so -20 is moderate and -10 is strong).
C14_DrawdownTiers ==
    \A i \in 1..Len(strategies) :
        LET v == strategies[i].maxDrawdown
            tier == TierOfColor(strategyCards[i].drawdownColor)
        IN  /\ Len(strategyCards) = Len(strategies)
            /\ tier = "strong" <=> v >= -100
            /\ tier = "moderate" <=> (-200 <= v /\ v < -100)
            /\ tier = "weak" <=> v < -200

C14_Witness ==
    /\ lastOp = "setDescription"
    /\ Len(strategies) = 1
    /\ strategies[1].maxDrawdown = -200
    /\ TierOfColor(strategyCards[1].drawdownColor) = "moderate"

\* q is the tail end of r: r is some new entries followed by q, unchanged
IsSuffix(q, r) ==
    /\ Len(q) <= Len(r)
    /\ SubSeq(r, Len(r) - Len(q) + 1, Len(r)) = q

\* C15: no step (a form edit, an accepted or a rejected create, the clock)
\* removes, reorders or changes a strategy of the list: the list before
\* the step is a suffix of the list after it, hence of every later list.
C15_StrategiesOnlyGrowAtHead ==
    [][IsSuffix(strategies, strategies')]_vars

C15_Witness ==
    /\ lastOp = "handleCreateStrategy"
    /\ newStrategy.name = <<" ">>
    /\ newStrategy.assetClass = "crypto"
    /\ Len(strategies) = Len(InitialStrategies) + 2
    /\ strategies[1].id # strategies[2].id
    /\ IsSuffix(InitialStrategies, strategies)

\* C16: once React has rendered the pending updates, the list holds its
\* initial entries plus one entry per accepted create, also when two
\* creates ran from the same rendered snapshot.
C16_NoAcceptedCreateLost ==
    snap = Rendered(strategies, newStrategy)
        => Len(strategies) = Len(InitialStrategies) + acceptedCreates

====
